---- MODULE Spec2Model ----
(***************************************************************************)
(* Model of the gorestclient package (restclient.go): NewRestClient,       *)
(* restClient.NewRequest, restClient.DoRequest, defaultErrorHandler and    *)
(* GetBaseURL.                                                             *)
(*                                                                         *)
(* Strings are sequences of one-character strings, so that path.Join,      *)
(* url.Parse, URL.ResolveReference and URL.String are computed character   *)
(* by character as the Go library computes them.  An error is the chain of *)
(* its messages, outermost first; the nil error is the empty chain.        *)
(***************************************************************************)
EXTENDS Integers, Sequences, FiniteSets, TLC

VARIABLES client, call

vars == <<client, call>>

(***************************************************************************)
(* Bounds of the model.                                                    *)
(***************************************************************************)
MaxRelLen == 3
MaxOpts == 2

(***************************************************************************)
(* Program constants.                                                      *)
(***************************************************************************)
StatusBadRequest == 400

(***************************************************************************)
(* Characters.                                                             *)
(***************************************************************************)
Letters == {"h", "t", "p", "v", "w"}
SchemeExtra == {"."}

(***************************************************************************)
(* strings helpers                                                         *)
(***************************************************************************)
Index(s, c) ==
    IF \E i \in 1..Len(s) : s[i] = c
    THEN CHOOSE i \in 1..Len(s) : s[i] = c /\ \A j \in 1..(i - 1) : s[j] # c
    ELSE 0

LastIndex(s, c) ==
    IF \E i \in 1..Len(s) : s[i] = c
    THEN CHOOSE i \in 1..Len(s) : s[i] = c /\ \A j \in (i + 1)..Len(s) : s[j] # c
    ELSE 0

Count(s, c) == Cardinality({i \in 1..Len(s) : s[i] = c})

HasPrefix(s, p) == Len(s) >= Len(p) /\ SubSeq(s, 1, Len(p)) = p

From(s, i) == SubSeq(s, i, Len(s))

RECURSIVE Split(_, _)
Split(s, c) ==
    LET i == Index(s, c)
    IN  IF i = 0 THEN <<s>> ELSE <<SubSeq(s, 1, i - 1)>> \o Split(From(s, i + 1), c)

RECURSIVE JoinWith(_, _)
JoinWith(segs, c) ==
    IF segs = <<>> THEN <<>>
    ELSE IF Len(segs) = 1 THEN segs[1]
    ELSE segs[1] \o <<c>> \o JoinWith(Tail(segs), c)

(***************************************************************************)
(* path.Clean and path.Join                                                *)
(***************************************************************************)
Dot == <<".">>
DotDot == <<".", ".">>

RECURSIVE CleanSegs(_, _, _)
CleanSegs(segs, out, rooted) ==
    IF segs = <<>> THEN out
    ELSE LET e == Head(segs)
             rest == Tail(segs)
         IN  IF e = <<>> \/ e = Dot THEN CleanSegs(rest, out, rooted)
             ELSE IF e = DotDot
                  THEN IF out # <<>> /\ out[Len(out)] # DotDot
                       THEN CleanSegs(rest, SubSeq(out, 1, Len(out) - 1), rooted)
                       ELSE IF rooted THEN CleanSegs(rest, out, rooted)
                            ELSE CleanSegs(rest, Append(out, DotDot), rooted)
                  ELSE CleanSegs(rest, Append(out, e), rooted)

PathClean(p) ==
    IF p = <<>> THEN Dot
    ELSE LET rooted == p[1] = "/"
             body == JoinWith(CleanSegs(Split(p, "/"), <<>>, rooted), "/")
             r == IF rooted THEN <<"/">> \o body ELSE body
         IN  IF r = <<>> THEN Dot ELSE r

PathConcat(a, b) == a \o b

PathJoin(a, b) ==
    IF Len(a) + Len(b) = 0 THEN <<>>
    ELSE IF a = <<>> THEN PathClean(b)
    ELSE PathClean(a \o <<"/">> \o b)

(***************************************************************************)
(* net/url: Parse, ResolveReference, String                                *)
(***************************************************************************)
NilErr == <<>>

EmptyURL ==
    [Scheme |-> <<>>, Opaque |-> <<>>, Host |-> <<>>, Path |-> <<>>,
     RawQuery |-> <<>>, ForceQuery |-> FALSE, OmitHost |-> FALSE]

ParseFail(msg) == [ok |-> FALSE, url |-> EmptyURL, err |-> <<<<"parse">>, <<msg>>>>]

ParseOk(u) == [ok |-> TRUE, url |-> u, err |-> NilErr]

RECURSIVE GetScheme(_, _)
GetScheme(raw, i) ==
    IF i > Len(raw) THEN [ok |-> TRUE, scheme |-> <<>>, rest |-> raw]
    ELSE IF raw[i] \in Letters THEN GetScheme(raw, i + 1)
    ELSE IF raw[i] \in SchemeExtra
         THEN IF i = 1 THEN [ok |-> TRUE, scheme |-> <<>>, rest |-> raw]
              ELSE GetScheme(raw, i + 1)
    ELSE IF raw[i] = ":"
         THEN IF i = 1 THEN [ok |-> FALSE, scheme |-> <<>>, rest |-> <<>>]
              ELSE [ok |-> TRUE, scheme |-> SubSeq(raw, 1, i - 1), rest |-> From(raw, i + 1)]
    ELSE [ok |-> TRUE, scheme |-> <<>>, rest |-> raw]

ValidOptionalPort(host) ==
    LET i == LastIndex(host, ":")
    IN  i = 0 \/ i = Len(host)

ParseAuthority(u0, authority, i) ==
    IF ~ValidOptionalPort(IF i = 0 THEN authority ELSE SubSeq(authority, 1, i - 1))
    THEN ParseFail("invalid port after host")
    ELSE ParseOk([u0 EXCEPT !.Host = IF i = 0 THEN authority ELSE SubSeq(authority, 1, i - 1),
                            !.Path = IF i = 0 THEN <<>> ELSE From(authority, i)])

ParseHier(u0, rest) ==
    IF ~HasPrefix(rest, <<"/">>) /\ u0.Scheme # <<>>
    THEN ParseOk([u0 EXCEPT !.Opaque = rest])
    ELSE IF ~HasPrefix(rest, <<"/">>) /\ Index(Split(rest, "/")[1], ":") # 0
    THEN ParseFail("first path segment in URL cannot contain colon")
    ELSE IF (u0.Scheme # <<>> \/ ~HasPrefix(rest, <<"/", "/", "/">>))
            /\ HasPrefix(rest, <<"/", "/">>)
    THEN ParseAuthority(u0, From(rest, 3), Index(From(rest, 3), "/"))
    ELSE ParseOk([u0 EXCEPT !.Path = rest,
                            !.OmitHost = u0.Scheme # <<>> /\ HasPrefix(rest, <<"/">>)])

ParseQuery(scheme, rest, q) ==
    IF rest # <<>> /\ rest[Len(rest)] = "?" /\ Count(rest, "?") = 1
    THEN ParseHier([EmptyURL EXCEPT !.Scheme = scheme, !.ForceQuery = TRUE],
                   SubSeq(rest, 1, Len(rest) - 1))
    ELSE IF q = 0 THEN ParseHier([EmptyURL EXCEPT !.Scheme = scheme], rest)
    ELSE ParseHier([EmptyURL EXCEPT !.Scheme = scheme, !.RawQuery = From(rest, q + 1)],
                   SubSeq(rest, 1, q - 1))

ParseScheme(g) ==
    IF ~g.ok THEN ParseFail("missing protocol scheme")
    ELSE ParseQuery(g.scheme, g.rest, Index(g.rest, "?"))

UrlParse(raw) == ParseScheme(GetScheme(raw, 1))

RECURSIVE ResolveLoop(_, _, _)
ResolveLoop(elems, dst, first) ==
    IF elems = <<>> THEN dst
    ELSE LET e == Head(elems)
         IN  IF e = Dot THEN ResolveLoop(Tail(elems), dst, FALSE)
             ELSE IF e = DotDot
                  THEN LET str == Tail(dst)
                           idx == LastIndex(str, "/")
                       IN  IF idx = 0 THEN ResolveLoop(Tail(elems), <<"/">>, TRUE)
                           ELSE ResolveLoop(Tail(elems), <<"/">> \o SubSeq(str, 1, idx - 1), first)
                  ELSE ResolveLoop(Tail(elems),
                                   (IF first THEN dst ELSE dst \o <<"/">>) \o e, FALSE)

ResolveFull(elems) ==
    LET last == elems[Len(elems)]
        d0 == ResolveLoop(elems, <<"/">>, TRUE)
        d1 == IF last = Dot \/ last = DotDot THEN d0 \o <<"/">> ELSE d0
    IN  IF Len(d1) > 1 /\ d1[2] = "/" THEN Tail(d1) ELSE d1

ResolvePath(base, ref) ==
    LET full == IF ref = <<>> THEN base
                ELSE IF ref[1] # "/" THEN SubSeq(base, 1, LastIndex(base, "/")) \o ref
                ELSE ref
    IN  IF full = <<>> THEN <<>> ELSE ResolveFull(Split(full, "/"))

ResolveReference(u, ref) ==
    LET url == IF ref.Scheme = <<>> THEN [ref EXCEPT !.Scheme = u.Scheme] ELSE ref
    IN  IF ref.Scheme # <<>> \/ ref.Host # <<>>
        THEN [url EXCEPT !.Path = ResolvePath(ref.Path, <<>>)]
        ELSE IF ref.Opaque # <<>>
        THEN [url EXCEPT !.Host = <<>>, !.Path = <<>>]
        ELSE LET url2 == IF ref.Path = <<>> /\ ~ref.ForceQuery /\ ref.RawQuery = <<>>
                         THEN [url EXCEPT !.RawQuery = u.RawQuery]
                         ELSE url
             IN  IF ref.Path = <<>> /\ u.Opaque # <<>>
                 THEN [url2 EXCEPT !.Opaque = u.Opaque, !.Host = <<>>, !.Path = <<>>]
                 ELSE [url2 EXCEPT !.Host = u.Host,
                                   !.Path = ResolvePath(u.Path, ref.Path)]

URLString(u) ==
    LET b1 == IF u.Scheme # <<>> THEN u.Scheme \o <<":">> ELSE <<>>
        q == IF u.ForceQuery \/ u.RawQuery # <<>> THEN <<"?">> \o u.RawQuery ELSE <<>>
    IN  IF u.Opaque # <<>> THEN b1 \o u.Opaque \o q
        ELSE LET b2 == IF (u.Scheme # <<>> \/ u.Host # <<>>)
                          /\ ~(u.OmitHost /\ u.Host = <<>>)
                       THEN b1 \o (IF u.Host # <<>> \/ u.Path # <<>> THEN <<"/", "/">> ELSE <<>>)
                               \o u.Host
                       ELSE b1
                 b3 == IF u.Path # <<>> /\ u.Path[1] # "/" /\ u.Host # <<>>
                       THEN b2 \o <<"/">> ELSE b2
                 b4 == IF b3 = <<>> /\ Index(Split(u.Path, "/")[1], ":") # 0
                       THEN <<".", "/">> ELSE b3
             IN  b4 \o u.Path \o q

(***************************************************************************)
(* Errors: errors.New, errors.Wrap (github.com/pkg/errors), fmt.Errorf %w  *)
(***************************************************************************)
ErrorsNew(text) == <<<<text>>>>

Wrap(err, msg) == IF err = NilErr THEN NilErr ELSE <<msg>> \o err

Errorf(text, err) == <<<<text>>>> \o err

RECURSIVE ErrorText(_)
ErrorText(err) ==
    IF err = <<>> THEN <<>>
    ELSE IF Len(err) = 1 THEN err[1]
    ELSE err[1] \o <<": ">> \o ErrorText(Tail(err))

ErrBadStatusCode == ErrorsNew("bad status code")

(***************************************************************************)
(* Values the callers and the transport supply                             *)
(***************************************************************************)
ErrOption == ErrorsNew("option rejected")
ErrPrepare == ErrorsNew("prepare rejected")
ErrCustom == ErrorsNew("custom handler error")
ErrTransport == ErrorsNew("connection refused")
ErrRead == ErrorsNew("unexpected EOF")
ErrUpstream == ErrorsNew("upstream error")

NilBody == [kind |-> "nil", v |-> 0]

Bodies == {NilBody, [kind |-> "num", v |-> 7], [kind |-> "chan", v |-> 0]}

NilDest == [kind |-> "nil", v |-> 0]

Dests == {NilDest, [kind |-> "ptr", v |-> 0], [kind |-> "nonptr", v |-> 0]}

Null == <<"n", "u", "l", "l">>

(***************************************************************************)
(* encoding/json: Encoder.Encode and Decoder.Decode                        *)
(***************************************************************************)
JSONEncode(body) ==
    IF body.kind = "chan"
    THEN [ok |-> FALSE, out |-> <<>>, err |-> ErrorsNew("json: unsupported type")]
    ELSE [ok |-> TRUE, out |-> <<ToString(body.v), "\n">>, err |-> NilErr]

RECURSIVE SkipSpace(_)
SkipSpace(s) == IF s # <<>> /\ s[1] = "\n" THEN SkipSpace(Tail(s)) ELSE s

Digits == {"1", "7"}

DigitValue(d) == IF d = "1" THEN 1 ELSE 7

JSONReadValue(data) ==
    LET d == SkipSpace(data)
    IN  IF d = <<>> THEN [ok |-> FALSE, kind |-> "eof", v |-> 0]
        ELSE IF HasPrefix(d, Null) THEN [ok |-> TRUE, kind |-> "null", v |-> 0]
        ELSE IF d[1] \in Digits /\ (Len(d) = 1 \/ d[2] = "\n")
        THEN [ok |-> TRUE, kind |-> "num", v |-> DigitValue(d[1])]
        ELSE [ok |-> FALSE, kind |-> "syntax", v |-> 0]

(***************************************************************************)
(* The response body stream: io.ReadAll, json Decode, Close                *)
(***************************************************************************)
Stream(data, readErr) == [data |-> data, readErr |-> readErr, read |-> FALSE, closes |-> 0]

Close(b) == [b EXCEPT !.closes = @ + 1]

ReadAll(b) ==
    IF b.readErr
    THEN [body |-> [b EXCEPT !.read = TRUE], data |-> <<>>, err |-> ErrRead]
    ELSE [body |-> [b EXCEPT !.read = TRUE], data |-> b.data, err |-> NilErr]

JSONDecode(b, dest) ==
    LET rd == ReadAll(b)
        val == JSONReadValue(rd.data)
    IN  IF rd.err # NilErr THEN [body |-> rd.body, dest |-> dest, err |-> rd.err]
        ELSE IF ~val.ok
        THEN [body |-> rd.body, dest |-> dest,
              err |-> IF val.kind = "eof" THEN ErrorsNew("EOF")
                      ELSE ErrorsNew("invalid character")]
        ELSE IF dest.kind # "ptr"
        THEN [body |-> rd.body, dest |-> dest, err |-> ErrorsNew("json: Unmarshal(non-pointer)")]
        ELSE IF val.kind = "null" THEN [body |-> rd.body, dest |-> dest, err |-> NilErr]
        ELSE [body |-> rd.body, dest |-> [dest EXCEPT !.v = val.v], err |-> NilErr]

(***************************************************************************)
(* http.Request, http.Response                                             *)
(***************************************************************************)
NilReq ==
    [nil |-> TRUE, Method |-> "", URL |-> EmptyURL, Header |-> {}, HasBody |-> FALSE,
     Payload |-> <<>>]

NilRes == [nil |-> TRUE, StatusCode |-> 0, Body |-> Stream(<<>>, FALSE)]

Response(code, data, readErr) ==
    [nil |-> FALSE, StatusCode |-> code, Body |-> Stream(data, readErr)]

HeaderSet(h, k, v) == {e \in h : e[1] # k} \cup {<<k, v>>}

ValidMethod(m) == m \in {"GET", "POST"}

BuildHTTPRequest(ctxNil, m, p, hasBody, payload) ==
    IF ~ValidMethod(m)
    THEN [ok |-> FALSE, req |-> NilReq, err |-> ErrorsNew("net/http: invalid method")]
    ELSE IF ctxNil
    THEN [ok |-> FALSE, req |-> NilReq, err |-> ErrorsNew("net/http: nil Context")]
    ELSE IF ~p.ok THEN [ok |-> FALSE, req |-> NilReq, err |-> p.err]
    ELSE [ok |-> TRUE, err |-> NilErr,
          req |-> [nil |-> FALSE, Method |-> m, URL |-> p.url, Header |-> {},
                   HasBody |-> hasBody, Payload |-> payload]]

HTTPNewRequest(ctxNil, method, urlStr, hasBody, payload) ==
    BuildHTTPRequest(ctxNil, IF method = "" THEN "GET" ELSE method, UrlParse(urlStr),
                     hasBody, payload)

(***************************************************************************)
(* restClient, Option and the With... options                              *)
(***************************************************************************)
NilClient ==
    [nil |-> TRUE, baseURL |-> EmptyURL, prepareFunc |-> "nil", handleErrorFunc |-> "nil",
     httpClient |-> "nil"]

WithPrepareRequestFunc(f) == [kind |-> "prepare", arg |-> f]

WithErrorHandlingFunc(f) == [kind |-> "error", arg |-> f]

WithHTTPClient(h) == [kind |-> "http", arg |-> h]

FailingOption == [kind |-> "fail", arg |-> "nil"]

ApplyOption(opt, c) ==
    IF opt.kind = "prepare" THEN [c |-> [c EXCEPT !.prepareFunc = opt.arg], err |-> NilErr]
    ELSE IF opt.kind = "error" THEN [c |-> [c EXCEPT !.handleErrorFunc = opt.arg], err |-> NilErr]
    ELSE IF opt.kind = "http" THEN [c |-> [c EXCEPT !.httpClient = opt.arg], err |-> NilErr]
    ELSE [c |-> c, err |-> ErrOption]

(***************************************************************************)
(* defaultErrorHandler and the hooks a caller may install                  *)
(***************************************************************************)
defaultErrorHandlerNoSentinel(err, req, res) ==
    LET rd == ReadAll(res.Body)
        out == [res EXCEPT !.Body = Close(rd.body)]
    IN  IF rd.err # NilErr
        THEN [res |-> out, stream |-> out.Body,
              err |-> Wrap(err, <<"response code: ", ToString(res.StatusCode)>>)]
        ELSE [res |-> out, stream |-> out.Body,
              err |-> Wrap(err, <<"response code: ", ToString(res.StatusCode), ", body:\n">>
                                  \o rd.data)]

defaultErrorHandler(err, req, res) ==
    LET e == IF err = NilErr THEN ErrBadStatusCode ELSE err
        rd == ReadAll(res.Body)
        out == [res EXCEPT !.Body = Close(rd.body)]
    IN  IF rd.err # NilErr
        THEN [res |-> out, stream |-> out.Body,
              err |-> Wrap(e, <<"response code: ", ToString(res.StatusCode)>>)]
        ELSE [res |-> out, stream |-> out.Body,
              err |-> Wrap(e, <<"response code: ", ToString(res.StatusCode), ", body:\n">>
                                \o rd.data)]

CallErrorHandler(f, err, req, res) ==
    IF f = "default" THEN defaultErrorHandler(err, req, res)
    ELSE IF f = "swallow"
    THEN LET out == [res EXCEPT !.Body = Close(res.Body)]
         IN  [res |-> out, stream |-> out.Body, err |-> NilErr]
    ELSE [res |-> NilRes, stream |-> res.Body, err |-> ErrCustom]

CallPrepare(f, req) ==
    IF f = "addAuth"
    THEN [req |-> [req EXCEPT !.Header = HeaderSet(@, "Authorization", "token")],
          err |-> NilErr]
    ELSE IF f = "setXML"
    THEN [req |-> [req EXCEPT !.Header = HeaderSet(@, "Accept", "text/xml")], err |-> NilErr]
    ELSE [req |-> req, err |-> ErrPrepare]

(***************************************************************************)
(* NewRestClient                                                           *)
(***************************************************************************)
RECURSIVE ApplyOptions(_, _, _, _)
ApplyOptions(c, opts, i, applied) ==
    IF i > Len(opts) THEN [c |-> c, err |-> NilErr, applied |-> applied]
    ELSE LET r == ApplyOption(opts[i], c)
         IN  IF r.err # NilErr
             THEN [c |-> NilClient, err |-> r.err, applied |-> Append(applied, i)]
             ELSE ApplyOptions(r.c, opts, i + 1, Append(applied, i))

WithDefaultsTransportOnly(c) ==
    IF c.httpClient = "nil" THEN [c EXCEPT !.httpClient = "default"] ELSE c

WithDefaults(c) ==
    LET c1 == IF c.httpClient = "nil" THEN [c EXCEPT !.httpClient = "default"] ELSE c
    IN  IF c1.handleErrorFunc = "nil" THEN [c1 EXCEPT !.handleErrorFunc = "default"] ELSE c1

Configure(r) == IF r.err # NilErr THEN r ELSE [r EXCEPT !.c = WithDefaults(r.c)]

Construct(p, opts) ==
    IF ~p.ok
    THEN [c |-> NilClient, err |-> Errorf("invalid url", p.err), applied |-> <<>>]
    ELSE Configure(ApplyOptions([NilClient EXCEPT !.nil = FALSE, !.baseURL = p.url],
                                opts, 1, <<>>))

NewRestClient(baseURL, opts) == Construct(UrlParse(baseURL), opts)

(***************************************************************************)
(* restClient.NewRequest                                                   *)
(***************************************************************************)
RequestFail(err, log) == [req |-> NilReq, err |-> err, prepLog |-> log]

SetHeadersAlways(req, body) ==
    [req EXCEPT !.Header = HeaderSet(HeaderSet(req.Header, "Content-Type", "application/json"),
                                     "Accept", "application/json")]

SetHeaders(req, body) ==
    LET h1 == IF body # NilBody
              THEN HeaderSet(req.Header, "Content-Type", "application/json")
              ELSE req.Header
    IN  [req EXCEPT !.Header = HeaderSet(h1, "Accept", "application/json")]

Prepared(req, p) ==
    IF p.err # NilErr THEN RequestFail(p.err, <<req>>)
    ELSE [req |-> p.req, err |-> NilErr, prepLog |-> <<req>>]

Prepare(c, req) ==
    IF c.prepareFunc # "nil" THEN Prepared(req, CallPrepare(c.prepareFunc, req))
    ELSE [req |-> req, err |-> NilErr, prepLog |-> <<>>]

Resolved(c, rel) ==
    IF ~rel.ok
    THEN [ok |-> FALSE, url |-> EmptyURL, err |-> Errorf("error parsing path", rel.err)]
    ELSE [ok |-> TRUE, url |-> ResolveReference(c.baseURL, rel.url), err |-> NilErr]

ResolveTarget(c, relPath) == Resolved(c, UrlParse(PathJoin(c.baseURL.Path, relPath)))

Encode(body) ==
    IF body # NilBody THEN JSONEncode(body) ELSE [ok |-> TRUE, out |-> <<>>, err |-> NilErr]

FinishHookFirst(c, body, r) ==
    IF ~r.ok THEN RequestFail(r.err, <<>>)
    ELSE IF c.prepareFunc # "nil" /\ CallPrepare(c.prepareFunc, r.req).err # NilErr
    THEN RequestFail(CallPrepare(c.prepareFunc, r.req).err, <<r.req>>)
    ELSE IF c.prepareFunc # "nil"
    THEN [req |-> SetHeaders(CallPrepare(c.prepareFunc, r.req).req, body), err |-> NilErr,
          prepLog |-> <<r.req>>]
    ELSE [req |-> SetHeaders(r.req, body), err |-> NilErr, prepLog |-> <<>>]

Finish(c, body, r) ==
    IF ~r.ok THEN RequestFail(r.err, <<>>) ELSE Prepare(c, SetHeaders(r.req, body))

Build(c, ctxNil, method, body, t, enc) ==
    IF ~t.ok THEN RequestFail(t.err, <<>>)
    ELSE IF ~enc.ok THEN RequestFail(enc.err, <<>>)
    ELSE Finish(c, body,
                HTTPNewRequest(ctxNil, method, URLString(t.url), body # NilBody, enc.out))

NewRequest(c, ctxNil, method, relPath, body) ==
    Build(c, ctxNil, method, body, ResolveTarget(c, relPath), Encode(body))

(***************************************************************************)
(* restClient.DoRequest                                                    *)
(***************************************************************************)
DoResult(res, err, stream, dest, hookLog, decodes) ==
    [res |-> res, err |-> err, stream |-> stream, dest |-> dest, hookLog |-> hookLog,
     decodes |-> decodes, sends |-> 1, prepLog |-> <<>>]

RouteErrorAbove(c, res) == res.StatusCode > StatusBadRequest /\ c.handleErrorFunc # "nil"

RouteErrorNon2xx(c, res) ==
    (res.StatusCode < 200 \/ res.StatusCode >= 300) /\ c.handleErrorFunc # "nil"

RouteError(c, res) == res.StatusCode >= StatusBadRequest /\ c.handleErrorFunc # "nil"

DecodedDropsResponse(res, d) ==
    IF d.err # NilErr
    THEN DoResult(NilRes, Errorf("error unmarshalling response", d.err), d.body, d.dest,
                  <<>>, 1)
    ELSE DoResult([res EXCEPT !.Body = d.body], NilErr, d.body, d.dest, <<>>, 1)

Decoded(res, d) ==
    IF d.err # NilErr
    THEN DoResult([res EXCEPT !.Body = d.body], Errorf("error unmarshalling response", d.err),
                  d.body, d.dest, <<>>, 1)
    ELSE DoResult([res EXCEPT !.Body = d.body], NilErr, d.body, d.dest, <<>>, 1)

DecodeInto(res, respDest) ==
    IF respDest # NilDest THEN Decoded(res, JSONDecode(res.Body, respDest))
    ELSE DoResult(res, NilErr, res.Body, respDest, <<>>, 0)

Handled(t, req, respDest, h) ==
    DoResult(h.res, h.err, h.stream, respDest,
             <<[err |-> t.err, req |-> req, res |-> t.res]>>, 0)

DoRequestWrapping(c, req, respDest, t) ==
    IF t.err # NilErr
    THEN DoResult(t.res, Errorf("request failed", t.err), t.res.Body, respDest, <<>>, 0)
    ELSE IF RouteError(c, t.res)
    THEN Handled(t, req, respDest, CallErrorHandler(c.handleErrorFunc, t.err, req, t.res))
    ELSE DecodeInto(t.res, respDest)

DoRequest(c, req, respDest, t) ==
    IF t.err # NilErr THEN DoResult(t.res, t.err, t.res.Body, respDest, <<>>, 0)
    ELSE IF RouteError(c, t.res)
    THEN Handled(t, req, respDest, CallErrorHandler(c.handleErrorFunc, t.err, req, t.res))
    ELSE DecodeInto(t.res, respDest)

GetBaseURL(c) == c.baseURL

(***************************************************************************)
(* Inputs                                                                  *)
(***************************************************************************)
Origin == <<"h", "t", "t", "p", ":", "/", "/", "h">>

BadBaseURL == <<":">>

GoodBaseURLs ==
    {Origin, Origin \o <<"/">>, Origin \o <<"/", "v">>, Origin \o <<"/", "v", "/">>,
     Origin \o <<"/", "v", "/", "p">>}

BaseURLs == {Origin, Origin \o <<"/", "v">>, BadBaseURL}

RelChars == {"/", ".", "w", "?", ":"}

AllRelPaths == UNION {[1..k -> RelChars] : k \in 0..MaxRelLen}

RelPaths == {<<"w">>, <<".", ".">>, <<":">>}

Methods == {"", "G T"}

PrepareFuncs == {"nil", "addAuth", "setXML", "reject"}

ErrorFuncs == {"nil", "swallow", "replace"}

HTTPClients == {"nil", "custom"}

Options ==
    {WithPrepareRequestFunc(f) : f \in PrepareFuncs}
        \cup {WithErrorHandlingFunc(f) : f \in ErrorFuncs}
        \cup {WithHTTPClient(h) : h \in HTTPClients}
        \cup {FailingOption}

OptionLists == UNION {[1..k -> Options] : k \in 0..MaxOpts}

StatusCodes == {100, 200, 399, 400, 404}

Payloads == {<<>>, <<"7", "\n">>, <<"w">>}

Responses ==
    {Response(s, d, FALSE) : s \in StatusCodes, d \in Payloads}
        \cup {Response(s, <<"w">>, TRUE) : s \in StatusCodes}

(* http.Client.Do: a response with a nil error, or an error with no       *)
(* response, or (a failed CheckRedirect) an error with a response whose   *)
(* body the client has already closed.                                    *)
TransportOutcomes ==
    {[res |-> r, err |-> NilErr] : r \in Responses}
        \cup {[res |-> NilRes, err |-> ErrTransport]}
        \cup {[res |-> [Response(399, <<>>, FALSE) EXCEPT !.Body = Close(@)],
               err |-> ErrTransport]}

HandBuiltRequest ==
    [nil |-> FALSE, Method |-> "POST", URL |-> UrlParse(Origin \o <<"/", "w">>).url,
     Header |-> {}, HasBody |-> FALSE, Payload |-> <<>>]

RequestsOf(c) ==
    {HandBuiltRequest} \cup {r \in {NewRequest(c, FALSE, "GET", <<"w">>, NilBody).req} : ~r.nil}

(***************************************************************************)
(* The state machine: one caller, which constructs its client first and    *)
(* then makes calls on it.  call is the record of the most recent call:    *)
(* its arguments, what it returned and what it was observed to do.         *)
(***************************************************************************)
Init ==
    /\ client = NilClient
    /\ call = [op |-> "none"]

NewRestClientCall ==
    /\ call.op = "none"
    /\ \E b \in BaseURLs, opts \in OptionLists :
          \E r \in {NewRestClient(b, opts)} :
              /\ client' = r.c
              /\ call' = [op |-> "NewRestClient", baseURL |-> b, opts |-> opts, c |-> r.c,
                          err |-> r.err, applied |-> r.applied]

NewRequestCall ==
    /\ ~client.nil
    /\ \E ctxNil \in BOOLEAN, m \in Methods, rel \in RelPaths, body \in Bodies :
          \E r \in {NewRequest(client, ctxNil, m, rel, body)} :
              call' = [op |-> "NewRequest", ctxNil |-> ctxNil, method |-> m, relPath |-> rel,
                       body |-> body, req |-> r.req, err |-> r.err, prepLog |-> r.prepLog]
    /\ UNCHANGED client

DoRequestCall ==
    /\ ~client.nil
    /\ \E req \in RequestsOf(client), dest \in Dests, t \in TransportOutcomes :
          \E r \in {DoRequest(client, req, dest, t)} :
              call' = [op |-> "DoRequest", req |-> req, respDest |-> dest, t |-> t,
                       res |-> r.res, err |-> r.err, stream |-> r.stream, dest |-> r.dest,
                       hookLog |-> r.hookLog, decodes |-> r.decodes, sends |-> r.sends,
                       prepLog |-> r.prepLog]
    /\ UNCHANGED client

DefaultErrorHandlerCall ==
    /\ \E err \in {NilErr, ErrUpstream}, res \in Responses :
          \E r \in {defaultErrorHandler(err, HandBuiltRequest, res)} :
              call' = [op |-> "defaultErrorHandler", inErr |-> err, inRes |-> res,
                       res |-> r.res, err |-> r.err]
    /\ UNCHANGED client

GetBaseURLCall ==
    /\ ~client.nil
    /\ call' = [op |-> "GetBaseURL", url |-> GetBaseURL(client)]
    /\ UNCHANGED client

Next ==
    \/ NewRestClientCall
    \/ NewRequestCall
    \/ DoRequestCall
    \/ DefaultErrorHandlerCall
    \/ GetBaseURLCall

Spec == Init /\ [][Next]_vars

(***************************************************************************)
(* NewRequest as a function of the base URL and the relative path: every   *)
(* relative path of up to MaxRelLen characters against every base URL.     *)
(***************************************************************************)
InitJoin ==
    /\ client \in {NewRestClient(b, <<>>).c : b \in GoodBaseURLs}
    /\ call \in {[op |-> "args", relPath |-> r] : r \in AllRelPaths}

JoinCall ==
    /\ call.op = "args"
    /\ \E r \in {NewRequest(client, FALSE, "GET", call.relPath, NilBody)} :
           call' = [op |-> "NewRequest", ctxNil |-> FALSE, method |-> "GET",
                    relPath |-> call.relPath, body |-> NilBody, req |-> r.req,
                    err |-> r.err, prepLog |-> r.prepLog]
    /\ UNCHANGED client

NextJoin == JoinCall

SpecJoin == InitJoin /\ [][NextJoin]_vars

(***************************************************************************)
(* Helpers of the properties                                               *)
(***************************************************************************)
RECURSIVE Contains(_, _)
Contains(s, sub) ==
    IF Len(s) < Len(sub) THEN FALSE
    ELSE HasPrefix(s, sub) \/ Contains(Tail(s), sub)

ErrorsIs(err, target) ==
    \E i \in 1..Len(err) : From(err, i) = target

HeaderGet(h, k) == IF \E e \in h : e[1] = k THEN (CHOOSE e \in h : e[1] = k)[2] ELSE ""

IsDo == call.op = "DoRequest"

IsNewRequest == call.op = "NewRequest"

GotResponse == IsDo /\ call.t.err = NilErr

SameResponse(a, b) ==
    /\ ~a.nil /\ ~b.nil
    /\ a.StatusCode = b.StatusCode
    /\ a.Body.data = b.Body.data
    /\ a.Body.readErr = b.Body.readErr

Segments(p) == SelectSeq(Split(p, "/"), LAMBDA e : e # <<>> /\ e # Dot)

NoDoubleSlash(p) == \A i \in 1..(Len(p) - 1) : ~(p[i] = "/" /\ p[i + 1] = "/")

ValidRelPath(p) == \A i \in 1..Len(p) : p[i] \in Letters \cup {"/", "."}

PlainRelPath(p) ==
    /\ ValidRelPath(p)
    /\ \A i \in 1..Len(Split(p, "/")) : Split(p, "/")[i] # DotDot

LastOfKind(opts, kind) ==
    IF \E i \in 1..Len(opts) : opts[i].kind = kind
    THEN opts[CHOOSE i \in 1..Len(opts) :
                 opts[i].kind = kind /\ \A j \in (i + 1)..Len(opts) : opts[j].kind # kind].arg
    ELSE "nil"

FirstFailing(opts) ==
    IF \E i \in 1..Len(opts) : opts[i].kind = "fail"
    THEN CHOOSE i \in 1..Len(opts) :
            opts[i].kind = "fail" /\ \A j \in 1..(i - 1) : opts[j].kind # "fail"
    ELSE 0

(***************************************************************************)
(* C1: when the transport returns a response with status >= 400, whatever  *)
(* respDest and whichever error hook, the hook is invoked exactly once     *)
(* with (nil error, the request, the response), no decode into respDest is *)
(* attempted, and DoRequest returns exactly the pair the hook returned.    *)
(***************************************************************************)
C1_ErrorHookOnBadStatus ==
    (GotResponse /\ call.t.res.StatusCode >= 400) =>
        /\ call.hookLog = <<[err |-> NilErr, req |-> call.req, res |-> call.t.res]>>
        /\ call.decodes = 0
        /\ call.dest = call.respDest
        /\ call.stream.read = (client.handleErrorFunc = "default")
        /\ call.res = CallErrorHandler(client.handleErrorFunc, NilErr, call.req,
                                       call.t.res).res
        /\ call.err = CallErrorHandler(client.handleErrorFunc, NilErr, call.req,
                                       call.t.res).err
        /\ (client.handleErrorFunc = "replace" => call.res.nil /\ call.err = ErrCustom)
        /\ (client.handleErrorFunc = "swallow" =>
                SameResponse(call.res, call.t.res) /\ call.err = NilErr)

C1_Witness ==
    /\ GotResponse
    /\ call.t.res.StatusCode = 400
    /\ call.respDest.kind = "ptr"
    /\ call.t.res.Body.data = <<"7", "\n">>
    /\ client.handleErrorFunc = "replace"
    /\ call.err = ErrCustom
    /\ Len(call.hookLog) = 1

(***************************************************************************)
(* C2: whenever the transport returns a response, the response body is     *)
(* closed exactly once by the time DoRequest returns, on every exit path   *)
(* (error hook, decode failure, success).                                  *)
(***************************************************************************)
C2_BodyClosedExactlyOnce ==
    (IsDo /\ ~call.t.res.nil /\ client.handleErrorFunc = "default") =>
        call.stream.closes = 1

(***************************************************************************)
(* C3 (as claimed): every response whose status is not 2xx, 1xx and 3xx    *)
(* included, is routed through the error handler and not decoded.          *)
(***************************************************************************)
C3_Non2xxRouted ==
    (GotResponse /\ ~(call.t.res.StatusCode \in 200..299)) =>
        Len(call.hookLog) = 1 /\ call.decodes = 0

(***************************************************************************)
(* C3 (amended): a response is routed through the error handler exactly    *)
(* when its status is >= 400; a response with any status below 400, 1xx    *)
(* and 3xx included, is treated as a success: the handler is not invoked   *)
(* and the body is decoded when respDest is non-nil.                       *)
(***************************************************************************)
C3_RoutedIffAtLeast400 ==
    GotResponse =>
        /\ (Len(call.hookLog) = 1) = (call.t.res.StatusCode >= 400)
        /\ Len(call.hookLog) <= 1
        /\ (call.t.res.StatusCode < 400 =>
                call.decodes = (IF call.respDest = NilDest THEN 0 ELSE 1))

C3_Witness ==
    /\ GotResponse
    /\ call.t.res.StatusCode = 399
    /\ call.respDest.kind = "ptr"
    /\ call.hookLog = <<>>
    /\ call.decodes = 1
    /\ call.dest.v = 7

(***************************************************************************)
(* C4: when the transport's send fails, DoRequest returns the transport's  *)
(* error itself, unwrapped, with whatever response the transport returned; *)
(* the error hook is not invoked, nothing is decoded, and the request is   *)
(* sent once only.                                                         *)
(***************************************************************************)
C4_TransportErrorAsIs ==
    (IsDo /\ call.t.err # NilErr) =>
        /\ call.err = call.t.err
        /\ call.res = call.t.res
        /\ call.hookLog = <<>>
        /\ call.decodes = 0
        /\ call.stream = call.t.res.Body
        /\ call.dest = call.respDest
        /\ call.sends = 1

C4_Witness ==
    /\ IsDo
    /\ call.t.err = ErrTransport
    /\ call.res.nil
    /\ call.respDest.kind = "ptr"
    /\ call.err = ErrTransport

(***************************************************************************)
(* C5 (as claimed): whenever DoRequest returns a non-nil error it also     *)
(* returns a non-nil response.                                             *)
(***************************************************************************)
C5_ResponseWithEveryError ==
    (IsDo /\ call.err # NilErr) => ~call.res.nil

(***************************************************************************)
(* C5 (amended): when the transport returns a response with status < 400,  *)
(* DoRequest returns that response: with an error wrapping the decode      *)
(* cause when respDest is non-nil and decoding fails, and with a nil error *)
(* when decoding succeeds or respDest is nil (no decode is attempted).  A  *)
(* failed send returns what the transport returned, which may be a nil     *)
(* response.                                                               *)
(***************************************************************************)
C5_ResponseKeptBelow400 ==
    /\ (GotResponse /\ call.t.res.StatusCode < 400) =>
          /\ SameResponse(call.res, call.t.res)
          /\ (call.respDest = NilDest => call.err = NilErr /\ call.decodes = 0
                                         /\ ~call.stream.read)
          /\ (call.respDest # NilDest =>
                 call.err = (IF JSONDecode(call.t.res.Body, call.respDest).err # NilErr
                             THEN <<<<"error unmarshalling response">>>>
                                  \o JSONDecode(call.t.res.Body, call.respDest).err
                             ELSE NilErr))
          /\ (call.err # NilErr => call.dest = call.respDest)
    /\ (IsDo /\ call.t.err # NilErr) => call.res = call.t.res

C5_Witness ==
    /\ GotResponse
    /\ call.t.res.StatusCode = 200
    /\ call.respDest.kind = "ptr"
    /\ call.t.res.Body.data = <<"w">>
    /\ ~call.t.res.Body.readErr
    /\ ~call.res.nil
    /\ call.err = <<<<"error unmarshalling response">>, <<"invalid character">>>>

(***************************************************************************)
(* C6: every call of the default error hook with a non-nil response closes *)
(* the body and returns the same response with a non-nil error, which      *)
(* wraps the passed-in error when that is non-nil and ErrBadStatusCode     *)
(* otherwise; its message carries the status code and the body text when   *)
(* the read succeeded, the status code alone when it failed, and the read  *)
(* failure is never returned.                                              *)
(***************************************************************************)
C6_DefaultHandler ==
    call.op = "defaultErrorHandler" =>
        /\ call.res.Body.closes = 1
        /\ SameResponse(call.res, call.inRes)
        /\ call.err # NilErr
        /\ ~ErrorsIs(call.err, ErrRead)
        /\ Tail(call.err) = (IF call.inErr # NilErr THEN call.inErr ELSE ErrBadStatusCode)
        /\ Contains(ErrorText(call.err), <<ToString(call.inRes.StatusCode)>>)
        /\ (~call.inRes.Body.readErr =>
                call.err[1] = <<"response code: ", ToString(call.inRes.StatusCode),
                                ", body:\n">> \o call.inRes.Body.data)
        /\ (call.inRes.Body.readErr =>
                call.err[1] = <<"response code: ", ToString(call.inRes.StatusCode)>>)

C6_Witness ==
    /\ call.op = "defaultErrorHandler"
    /\ call.inErr = NilErr
    /\ call.inRes.StatusCode = 404
    /\ call.inRes.Body.readErr
    /\ call.err = <<<<"response code: ", "404">>, <<"bad status code">>>>
    /\ call.res.Body.closes = 1

(***************************************************************************)
(* C7: NewRestClient applies the options strictly in argument order; an    *)
(* unparsable base URL fails before any option is applied; the first       *)
(* option that fails stops construction, no later option is applied and    *)
(* its error is returned with no client; of two options setting one field  *)
(* the later wins; every client returned has a transport and an error      *)
(* hook, the defaults when none (or nil) was given.                        *)
(***************************************************************************)
C7_Construction ==
    call.op = "NewRestClient" =>
        /\ call.applied = [i \in 1..Len(call.applied) |-> i]
        /\ client = call.c
        /\ (call.baseURL = BadBaseURL =>
                call.applied = <<>> /\ call.c.nil /\ call.err # NilErr
                /\ call.err[1] = <<"invalid url">>)
        /\ (call.baseURL # BadBaseURL /\ FirstFailing(call.opts) # 0 =>
                /\ Len(call.applied) = FirstFailing(call.opts)
                /\ call.c.nil
                /\ call.err = ErrOption)
        /\ (call.baseURL # BadBaseURL /\ FirstFailing(call.opts) = 0 =>
                /\ Len(call.applied) = Len(call.opts)
                /\ call.err = NilErr
                /\ ~call.c.nil
                /\ call.c.baseURL.Host = <<"h">>
                /\ call.c.prepareFunc = LastOfKind(call.opts, "prepare")
                /\ call.c.handleErrorFunc =
                       (IF LastOfKind(call.opts, "error") = "nil" THEN "default"
                        ELSE LastOfKind(call.opts, "error"))
                /\ call.c.httpClient =
                       (IF LastOfKind(call.opts, "http") = "nil" THEN "default"
                        ELSE LastOfKind(call.opts, "http")))

C7_Witness ==
    /\ call.op = "NewRestClient"
    /\ call.opts = <<WithErrorHandlingFunc("swallow"), WithErrorHandlingFunc("nil")>>
    /\ call.err = NilErr
    /\ client.handleErrorFunc = "default"
    /\ client.httpClient = "default"

(***************************************************************************)
(* C8 (as claimed): for every base URL and every relative path (of path     *)
(* characters: no query, no scheme), the request NewRequest returns        *)
(* targets the base URL's scheme and host, with the                        *)
(* segments of the base path kept as the leading segments of its path, and *)
(* no doubled separator.                                                   *)
(***************************************************************************)
C8_JoinedForAllPaths ==
    (IsNewRequest /\ ~call.req.nil /\ ValidRelPath(call.relPath)) =>
        /\ call.req.URL.Scheme = client.baseURL.Scheme
        /\ call.req.URL.Host = client.baseURL.Host
        /\ NoDoubleSlash(call.req.URL.Path)
        /\ HasPrefix(Segments(call.req.URL.Path), Segments(client.baseURL.Path))

(***************************************************************************)
(* C8 (amended): for a relative path made of '/'-separated segments of     *)
(* plain characters, none of which is "..", NewRequest returns a request   *)
(* that targets the base URL's scheme and host, whose path is "/" followed *)
(* by the segments of the base path and then those of the relative path,   *)
(* joined by single separators (empty and "." segments dropped, no         *)
(* trailing separator).                                                    *)
(***************************************************************************)
C8_JoinedForPlainPaths ==
    (IsNewRequest /\ PlainRelPath(call.relPath)) =>
        /\ call.err = NilErr
        /\ ~call.req.nil
        /\ call.req.URL.Scheme = client.baseURL.Scheme
        /\ call.req.URL.Host = client.baseURL.Host
        /\ call.req.URL.Opaque = <<>>
        /\ call.req.URL.RawQuery = <<>>
        /\ NoDoubleSlash(call.req.URL.Path)
        /\ LET segs == Segments(client.baseURL.Path) \o Segments(call.relPath)
           IN  IF segs # <<>> THEN call.req.URL.Path = <<"/">> \o JoinWith(segs, "/")
               ELSE call.req.URL.Path =
                        (IF client.baseURL.Path = <<>> /\ call.relPath = <<>>
                         THEN <<>> ELSE <<"/">>)

C8_Witness ==
    /\ IsNewRequest
    /\ client.baseURL.Path = <<"/", "v", "/">>
    /\ call.relPath = <<"/", "w", "/">>
    /\ call.req.URL.Path = <<"/", "v", "/", "w">>
    /\ call.req.URL.Host = <<"h">>

(***************************************************************************)
(* C9: a request NewRequest returns on a client with no prepare hook has   *)
(* Accept: application/json, and has Content-Type: application/json if    *)
(* and only if the body argument was non-nil, in which case the payload is *)
(* the JSON encoding of the body; with a nil body there is no payload and  *)
(* no Content-Type.                                                        *)
(***************************************************************************)
C9_Headers ==
    (IsNewRequest /\ call.err = NilErr /\ client.prepareFunc = "nil") =>
        /\ ~call.req.nil
        /\ HeaderGet(call.req.Header, "Accept") = "application/json"
        /\ Cardinality({e \in call.req.Header : e[1] = "Accept"}) = 1
        /\ (call.body # NilBody) = (<<"Content-Type", "application/json">> \in call.req.Header)
        /\ (call.body = NilBody =>
                /\ \A e \in call.req.Header : e[1] # "Content-Type"
                /\ ~call.req.HasBody
                /\ call.req.Payload = <<>>)
        /\ (call.body # NilBody =>
                /\ call.req.HasBody
                /\ call.body.kind = "num"
                /\ call.req.Payload = <<ToString(call.body.v), "\n">>)

C9_Witness ==
    /\ IsNewRequest
    /\ client.prepareFunc = "nil"
    /\ call.err = NilErr
    /\ call.body = [kind |-> "num", v |-> 7]
    /\ call.req.Header = {<<"Accept", "application/json">>,
                          <<"Content-Type", "application/json">>}
    /\ call.req.Payload = <<"7", "\n">>

(***************************************************************************)
(* C10: with a prepare hook configured, a NewRequest call that gets past   *)
(* path resolution, body serialization and request construction invokes    *)
(* the hook exactly once, last, on the fully built request; a hook error   *)
(* is returned as it is with no request; when an earlier step fails the    *)
(* hook is not invoked; DoRequest never invokes it.                        *)
(***************************************************************************)
EarlierStepsPass ==
    /\ ~(client.baseURL.Path = <<>> /\ call.relPath = <<":">>)
    /\ call.body.kind # "chan"
    /\ call.method \in {"", "GET", "POST"}
    /\ ~call.ctxNil

C10_PrepareHook ==
    /\ IsDo => call.prepLog = <<>>
    /\ (IsNewRequest /\ client.prepareFunc = "nil") => call.prepLog = <<>>
    /\ (IsNewRequest /\ client.prepareFunc # "nil") =>
          /\ Len(call.prepLog) = (IF EarlierStepsPass THEN 1 ELSE 0)
          /\ (~EarlierStepsPass => call.req.nil /\ call.err # NilErr /\ call.err # ErrPrepare)
          /\ (EarlierStepsPass =>
                 /\ ~call.prepLog[1].nil
                 /\ call.prepLog[1].URL.Host = client.baseURL.Host
                 /\ call.prepLog[1].URL.Path
                        = (IF call.relPath = DotDot THEN <<"/">>
                           ELSE client.baseURL.Path \o <<"/">> \o call.relPath)
                 /\ call.prepLog[1].Method = (IF call.method = "" THEN "GET" ELSE call.method)
                 /\ call.prepLog[1].Header
                        = (IF call.body = NilBody THEN {<<"Accept", "application/json">>}
                           ELSE {<<"Accept", "application/json">>,
                                 <<"Content-Type", "application/json">>})
                 /\ call.prepLog[1].HasBody = (call.body # NilBody)
                 /\ call.prepLog[1].Payload
                        = (IF call.body = NilBody THEN <<>>
                           ELSE <<ToString(call.body.v), "\n">>)
                 /\ (client.prepareFunc = "reject" =>
                        call.err = ErrPrepare /\ call.req.nil)
                 /\ (client.prepareFunc # "reject" =>
                        /\ call.err = NilErr
                        /\ call.req = CallPrepare(client.prepareFunc, call.prepLog[1]).req))

C10_Witness ==
    /\ IsNewRequest
    /\ client.prepareFunc = "reject"
    /\ call.body = [kind |-> "num", v |-> 7]
    /\ Len(call.prepLog) = 1
    /\ call.prepLog[1].Payload = <<"7", "\n">>
    /\ call.err = ErrPrepare
    /\ call.req.nil

====
